---- MODULE Spec2Model ----
(***************************************************************************)
(* A model of src/connector.py: the Connector (one backend session per     *)
(* execute), the ResultTableModel (rows revealed ROWS_COUNT at a time and   *)
(* fetched from the cursor 1000 at a time) and MainWidget.on_click, which   *)
(* builds both.                                                             *)
(*                                                                         *)
(* Encoding.  The rows a statement returns are numbered 1..total in cursor  *)
(* order.  A list of rows is kept run-length encoded, as a sequence of      *)
(* pages [lo, hi], each standing for the rows lo..hi in that order: the     *)
(* list [1..1000] + [1001..1500] is <<[lo |-> 1, hi |-> 1000],              *)
(* [lo |-> 1001, hi |-> 1500]>>.  RowsLen and RowAt read such a list as     *)
(* Python's len() and [] do.  The cell of row r in column c is <<r, c>>.    *)
(* A string that the code inspects (the connection string) is a sequence    *)
(* of tokens, so that startswith('/') and os.path.join are computed.        *)
(***************************************************************************)
EXTENDS Integers, Sequences, FiniteSets, TLC

\* ------------------------------------------------------------- constants
ROWS_COUNT == 25
FETCH_SIZE == 1000

\* bounds of the model
MaxBatches == 1
MaxClicks == 2
MaxCols == 2
MaxExecutes == 2
MaxReleases == 2

\* None where a list is expected (no headers, no description): Python tests
\* both with "if x", which the empty list fails too.
None == << >>
MEMORY == <<":memory:">>
BASE_DIR == <<"/", "app">>

Min(a, b) == IF a <= b THEN a ELSE b

\* ------------------------------------------------------------ row lists
RECURSIVE RowsLen(_)
RowsLen(rows) ==
  IF rows = << >> THEN 0
  ELSE (Head(rows).hi - Head(rows).lo + 1) + RowsLen(Tail(rows))

\* rows[i] with i counted from 0, as Python's list index (0 <= i < len).
RECURSIVE RowAt(_, _)
RowAt(rows, i) ==
  IF rows = << >> THEN 0
  ELSE LET n == Head(rows).hi - Head(rows).lo + 1
       IN IF i < n THEN Head(rows).lo + i ELSE RowAt(Tail(rows), i - n)

\* list + page: an empty page adds nothing.
Extend(rows, page) == IF page.hi < page.lo THEN rows ELSE Append(rows, page)

\* ------------------------------------------------------- the two drivers
DbTypes == {"sqlite3", "postgres"}
DriverOf(dbType) == IF dbType = "sqlite3" THEN "sqlite3" ELSE "psycopg2"

\* The exception classes a driver call may raise (PEP 249 classes of each
\* driver module); the first of each list is the class of a syntax error.
DriverErrors(driver) ==
  IF driver = "sqlite3"
  THEN {"sqlite3.OperationalError", "sqlite3.IntegrityError"}
  ELSE {"psycopg2.ProgrammingError", "psycopg2.OperationalError",
        "psycopg2.IntegrityError"}

\* The classes on_click's except clauses name.
Caught ==
  {"psycopg2.ProgrammingError", "sqlite3.OperationalError",
   "psycopg2.OperationalError"}

\* How many rows a statement may return: around each batch boundary.
Totals ==
  {b * FETCH_SIZE + e : b \in 0..MaxBatches,
                        e \in {0, 1, ROWS_COUNT, ROWS_COUNT + 1}}

\* Column names are numbers: the headers of a result with n columns.
Headers(n) == [i \in 1..n |-> i]

\* The result sets tried: every total with one column on the first backend
\* (the pagination code reads neither the driver nor the columns), a short
\* result with more columns, and two totals on the other backend.
Results(driver) ==
  IF driver = "sqlite3"
  THEN {[headers |-> Headers(1), total |-> n] : n \in Totals}
       \cup {[headers |-> Headers(MaxCols), total |-> ROWS_COUNT + 1]}
  ELSE {[headers |-> Headers(1), total |-> n] : n \in {ROWS_COUNT + 1, FETCH_SIZE + 1}}

VARIABLES app, clicks, conns, sessions, model, pc, cycles, last

vars == <<app, clicks, conns, sessions, model, pc, cycles, last>>

\* ------------------------------------------------------------ Connector
\* A backend session (the driver's connection with its one cursor).  The k-th
\* session connector c opens is named <<c, k>>; sessions maps the sessions
\* still to be accounted for: a session leaves the map once it has been
\* released with exactly one close() (or by the driver's deallocator) and the
\* connector that opened it is gone.
NoSession == <<0, 0>>

NewSession ==
  [state |-> "open", closeCalls |-> 0, headers |-> None, total |-> 0, pos |-> 0]

\* Connector.__init__: no session, and no cursor attribute yet.  opened counts
\* the sessions the connector has opened.
Connector(driver) ==
  [driver |-> driver, connect |-> NoSession, cursor |-> NoSession, opened |-> 0]

get_connector(dbType) == Connector(DriverOf(dbType))

\* connection.close() of both drivers: releases the session; on a closed one it
\* does nothing more.  closeCalls counts the calls.
Close(s) ==
  [s EXCEPT !.state = "closed", !.closeCalls = @ + 1, !.headers = None,
            !.total = 0, !.pos = 0]

\* The driver's own deallocator, run when the last reference to a connection
\* object goes: an open session is released with no close() call.
Dealloc(s) ==
  IF s.state = "open"
  THEN [s EXCEPT !.state = "finalized", !.headers = None, !.total = 0, !.pos = 0]
  ELSE s

\* What the backend does with one statement: the outcome of connect(), of
\* cursor.execute() and of commit() ("ok" or the class raised), and the result
\* set (headers = None for a statement that returns none).
Behaviours(driver) ==
  LET errs == DriverErrors(driver)
      ok == [connect |-> "ok", execute |-> "ok", commit |-> "ok",
             headers |-> None, total |-> 0]
  IN    {[ok EXCEPT !.connect = e] : e \in errs}
   \cup {[ok EXCEPT !.execute = e] : e \in errs}
   \cup {[ok EXCEPT !.commit = e] : e \in errs}
   \cup {ok}
   \cup {[ok EXCEPT !.headers = r.headers, !.total = r.total] : r \in Results(driver)}

\* execute that commits whether or not the statement ran.
execute_CommitsAnyway(c, cs, ss, b) ==
  IF b.connect # "ok"
  THEN [conns |-> cs, sessions |-> ss, calls |-> <<"connect">>, raised |-> b.connect]
  ELSE
    LET sid == <<c, cs[c].opened + 1>>
        ss1 == [s \in DOMAIN ss \cup {sid} |-> IF s = sid THEN NewSession ELSE ss[s]]
        cs1 == [cs EXCEPT ![c].connect = sid, ![c].cursor = sid,
                          ![c].opened = @ + 1]
        ss2 == IF b.execute = "ok"
               THEN [ss1 EXCEPT ![sid].headers = b.headers, ![sid].total = b.total]
               ELSE ss1
    IN [conns |-> cs1, sessions |-> ss2,
        calls |-> <<"connect", "cursor", "execute", "commit">>,
        raised |-> IF b.execute # "ok" THEN b.execute
                   ELSE IF b.commit # "ok" THEN b.commit ELSE "none"]

\* Connector.execute on connector c.  Gives the connectors and sessions after
\* the call, the driver calls made, in order, and the class raised ("none").
execute(c, cs, ss, b) ==
  IF b.connect # "ok"
  THEN [conns |-> cs, sessions |-> ss, calls |-> <<"connect">>, raised |-> b.connect]
  ELSE
    LET sid == <<c, cs[c].opened + 1>>
        old == {cs[c].connect, cs[c].cursor} \ {NoSession}
        \* self.connect and self.cursor now name the new session: the
        \* connection object they named before has no reference left.
        ss1 == [s \in DOMAIN ss \cup {sid} |->
                  IF s = sid THEN NewSession
                  ELSE IF s \in old THEN Dealloc(ss[s]) ELSE ss[s]]
        cs1 == [cs EXCEPT ![c].connect = sid, ![c].cursor = sid,
                          ![c].opened = @ + 1]
    IN IF b.execute # "ok"
       THEN [conns |-> cs1, sessions |-> ss1,
             calls |-> <<"connect", "cursor", "execute">>, raised |-> b.execute]
       ELSE
         LET ss2 == [ss1 EXCEPT ![sid].headers = b.headers, ![sid].total = b.total]
         IN [conns |-> cs1, sessions |-> ss2,
             calls |-> <<"connect", "cursor", "execute", "commit">>,
             raised |-> IF b.commit # "ok" THEN b.commit ELSE "none"]

\* Connector.get_headers: cursor.description is None (falsy) without a result set.
get_headers(c, cs, ss) ==
  LET d == ss[cs[c].cursor].headers
  IN IF d # None THEN d ELSE None

ClosedError(driver) ==
  IF driver = "sqlite3" THEN "sqlite3.ProgrammingError" ELSE "psycopg2.InterfaceError"

EmptyPage == [lo |-> 1, hi |-> 0]

\* get_data with a cursor that starts over once it has reached the end.
get_data_Wraps(c, cs, ss, fail) ==
  LET sid == cs[c].cursor
      s == ss[sid]
      from == IF s.pos = s.total THEN 0 ELSE s.pos
      hi == Min(from + FETCH_SIZE, s.total)
  IN IF sid = NoSession \/ s.state # "open" \/ fail # "ok"
     THEN [page |-> EmptyPage, sessions |-> ss, raised |-> "AttributeError"]
     ELSE IF s.headers = None
     THEN [page |-> EmptyPage, sessions |-> ss, raised |-> "none"]
     ELSE [page |-> [lo |-> from + 1, hi |-> hi],
           sessions |-> [ss EXCEPT ![sid].pos = hi], raised |-> "none"]

\* get_data with a cursor that does not move on: the next call returns the
\* same rows again.
get_data_Rereads(c, cs, ss, fail) ==
  LET s == ss[cs[c].cursor]
  IN IF cs[c].cursor = NoSession \/ s.state # "open" \/ s.headers = None
        \/ fail # "ok"
     THEN [page |-> EmptyPage, sessions |-> ss, raised |-> "AttributeError"]
     ELSE [page |-> [lo |-> s.pos + 1, hi |-> Min(s.pos + FETCH_SIZE, s.total)],
           sessions |-> ss, raised |-> "none"]

\* Connector.get_data: cursor.fetchmany(size=1000).  fail is "ok" or the class
\* the driver raises while reading.  Gives the page, the sessions and the class
\* raised.
get_data(c, cs, ss, fail) ==
  LET sid == cs[c].cursor
      s == ss[sid]
      hi == Min(s.pos + FETCH_SIZE, s.total)
  IN IF sid = NoSession
     THEN [page |-> EmptyPage, sessions |-> ss, raised |-> "AttributeError"]
     ELSE IF s.state # "open"
     THEN [page |-> EmptyPage, sessions |-> ss, raised |-> ClosedError(cs[c].driver)]
     ELSE IF s.headers = None
     THEN [page |-> EmptyPage, sessions |-> ss,
           raised |-> IF cs[c].driver = "psycopg2"
                      THEN "psycopg2.ProgrammingError" ELSE "none"]
     ELSE IF fail # "ok"
     THEN [page |-> EmptyPage, sessions |-> ss, raised |-> fail]
     ELSE [page |-> [lo |-> s.pos + 1, hi |-> hi],
           sessions |-> [ss EXCEPT ![sid].pos = hi], raised |-> "none"]

\* Connector.__del__: closes the session self.connect names, if it names one.
Connector_del(c, cs, ss) ==
  IF cs[c].connect # NoSession
  THEN [ss EXCEPT ![cs[c].connect] = Close(@)]
  ELSE ss

\* CPython's reference counting (PyQt5 runs on CPython only): every connector
\* no longer referenced is finalized, __del__ runs, once, and the object is
\* gone.  conns maps the connectors that exist.
RECURSIVE Finalize(_, _, _)
Finalize(dead, cs, ss) ==
  IF dead = {} THEN ss
  ELSE LET c == CHOOSE x \in dead : TRUE
       IN Finalize(dead \ {c}, cs, Connector_del(c, cs, ss))

\* A session is settled once released by one close() call at most and by
\* nothing else after.
Settled(s) == s.state # "open" /\ s.closeCalls <= 1

Collect(cs, ss, reachable) ==
  LET dead == DOMAIN cs \ reachable
      ss1 == Finalize(dead, cs, ss)
      gone == {s \in DOMAIN ss1 : s[1] \in dead /\ Settled(ss1[s])}
  IN [conns |-> [c \in DOMAIN cs \ dead |-> cs[c]],
      sessions |-> [s \in DOMAIN ss1 \ gone |-> ss1[s]],
      closed |-> {cs[c].connect : c \in dead} \ {NoSession}]

\* ----------------------------------------------------- ResultTableModel
\* ResultTableModel.__init__; datasource 0 is None.
ResultTableModel(data, headers, datasource) ==
  [data |-> data, headers |-> headers, rowsLoaded |-> ROWS_COUNT,
   datasource |-> datasource]

\* The view before any model is set.
NoModel == [data |-> << >>, headers |-> << >>, rowsLoaded |-> 0, datasource |-> 0]

rowCount(m) ==
  IF RowsLen(m.data) <= m.rowsLoaded THEN RowsLen(m.data) ELSE m.rowsLoaded

columnCount(m) == Len(m.headers)

\* addRecords that appends the fetched page twice.
addRecords_Twice(m, cs, ss, fail) ==
  LET r == get_data(m.datasource, cs, ss, fail)
  IN [model |-> IF r.raised = "none"
                THEN [m EXCEPT !.data = Extend(Extend(@, r.page), r.page)] ELSE m,
      sessions |-> r.sessions, raised |-> r.raised]

\* addRecords: self.data += self.datasource.get_data(); nothing is added when
\* get_data raises.
addRecords(m, cs, ss, fail) ==
  LET r == get_data(m.datasource, cs, ss, fail)
  IN [model |-> IF r.raised = "none"
                THEN [m EXCEPT !.data = Extend(@, r.page)] ELSE m,
      sessions |-> r.sessions, raised |-> r.raised]

\* canFetchMore that asks the connector for more on every call.
canFetchMore_AlwaysFetches(m, cs, ss, fail) ==
  IF m.datasource # 0
  THEN LET r == addRecords(m, cs, ss, fail)
       IN [model |-> r.model, sessions |-> r.sessions,
           returned |-> RowsLen(m.data) > m.rowsLoaded,
           calls |-> <<"fetchmany">>, raised |-> r.raised]
  ELSE [model |-> m, sessions |-> ss, returned |-> FALSE, calls |-> << >>,
        raised |-> "none"]

\* canFetchMore that never asks the connector for more.
canFetchMore_NeverFetches(m, cs, ss, fail) ==
  [model |-> m, sessions |-> ss, returned |-> RowsLen(m.data) > m.rowsLoaded,
   calls |-> << >>, raised |-> "none"]

\* canFetchMore: the model and sessions after the call, what it returned, the
\* driver calls it made and the class raised out of it.
canFetchMore(m, cs, ss, fail) ==
  IF RowsLen(m.data) > m.rowsLoaded
  THEN [model |-> m, sessions |-> ss, returned |-> TRUE, calls |-> << >>,
        raised |-> "none"]
  ELSE IF m.datasource # 0
  THEN LET r == addRecords(m, cs, ss, fail)
       IN [model |-> r.model, sessions |-> r.sessions, returned |-> FALSE,
           calls |-> <<"fetchmany">>, raised |-> r.raised]
  ELSE [model |-> m, sessions |-> ss, returned |-> FALSE, calls |-> << >>,
        raised |-> "none"]

\* fetchMore that reveals every materialized row at once.
fetchMore_RevealsAll(m) == [m EXCEPT !.rowsLoaded = RowsLen(m.data)]

\* fetchMore that sets the counter to the number of rows to reveal.
fetchMore_Assigns(m) ==
  LET reminder == RowsLen(m.data) - m.rowsLoaded
      itemsToFetch == Min(reminder, ROWS_COUNT)
  IN [m EXCEPT !.rowsLoaded = itemsToFetch]

\* fetchMore: rowsLoaded += min(len(self.data) - rowsLoaded, ROWS_COUNT).
fetchMore(m) ==
  LET reminder == RowsLen(m.data) - m.rowsLoaded
      itemsToFetch == Min(reminder, ROWS_COUNT)
  IN [m EXCEPT !.rowsLoaded = @ + itemsToFetch]

\* ResultTableModel.data(index, role): an empty QVariant for an invalid index
\* or another role; else self.data[row][column], which raises IndexError past
\* the end of the list or of the row.
NoCell == <<0, 0>>
data(m, index, role) ==
  IF ~index.valid THEN [kind |-> "QVariant()", cell |-> NoCell]
  ELSE IF role # "DisplayRole" THEN [kind |-> "QVariant()", cell |-> NoCell]
  ELSE IF index.row >= RowsLen(m.data) \/ index.column >= Len(m.headers)
  THEN [kind |-> "IndexError", cell |-> NoCell]
  ELSE [kind |-> "value", cell |-> <<RowAt(m.data, index.row), index.column>>]

\* ------------------------------------------------------------- on_click
StartsWithSlash(str) == Len(str) > 0 /\ str[1] = "/"

\* os.path.join(a, p) for a relative p.
PathJoin(a, p) == a \o <<"/">> \o p

RelativeFile == <<"mydb.sqlite">>
AbsoluteFile == <<"/", "data", "/", "mydb.sqlite">>
Dsn == <<"dbname=test">>

\* What the user may have typed in the connection field.
ConnStrings(dbType) ==
  IF dbType = "sqlite3"
  THEN {<< >>, MEMORY, RelativeFile, AbsoluteFile}
  ELSE {<< >>, Dsn}

\* The files that may exist on disk.
Files == {PathJoin(BASE_DIR, RelativeFile), AbsoluteFile}

\* The locator taken as typed, never joined with the base directory.
Resolve_NoJoin(dbType, typed) == IF typed = << >> THEN MEMORY ELSE typed

\* The locator on_click passes on: lines 161-166.
Resolve(dbType, typed) ==
  LET connString == IF typed = << >> THEN MEMORY ELSE typed
  IN IF dbType = "sqlite3" /\ connString # MEMORY /\ ~StartsWithSlash(connString)
     THEN PathJoin(BASE_DIR, connString)
     ELSE connString

FileBased(dbType, typed) ==
  dbType = "sqlite3" /\ (IF typed = << >> THEN MEMORY ELSE typed) # MEMORY

Last0 ==
  [op |-> "init", outcome |-> "", connector |-> 0, path |-> << >>,
   calls |-> << >>, raised |-> "none", title |-> "", text |-> "",
   logged |-> "none", returned |-> FALSE, closed |-> {},
   index |-> [valid |-> FALSE, row |-> 0, column |-> 0], role |-> "",
   result |-> [kind |-> "none", cell |-> NoCell]]

\* The connector the view's model holds.
ModelRefs(m) == IF m.datasource # 0 THEN {m.datasource} ELSE {}

\* An exception leaves a handler Qt called (a slot, a reimplemented virtual)
\* and nothing in this program catches it or installs an excepthook: PyQt5
\* (5.5 and later) then ends the process with qFatal().  No finalizer runs.
Unhandled(cs, ss, m, lst) ==
  [app |-> "aborted", conns |-> cs, sessions |-> ss, model |-> m, last |-> lst]

\* on_click returns: its locals go, and the connectors the view's model does
\* not hold are finalized.
Returns(cs, ss, m, lst) ==
  LET g == Collect(cs, ss, ModelRefs(m))
  IN [app |-> "running", conns |-> g.conns, sessions |-> g.sessions,
      model |-> m, last |-> [lst EXCEPT !.closed = g.closed]]

\* Except clauses that go on to build and install a model.
Except_Installs(err, cs, ss, lst) ==
  Returns(cs, ss, ResultTableModel(<< >>, Headers(1), lst.connector),
          [lst EXCEPT !.outcome = "error", !.raised = err,
                      !.title = "Error!", !.text = err, !.logged = err])

\* The except clauses of on_click, lines 182-187, for class err raised in the
\* try block.
Except(err, cs, ss, lst) ==
  IF err \in Caught
  THEN Returns(cs, ss, model,
               [lst EXCEPT !.outcome = "error", !.raised = err,
                           !.title = "Error!", !.text = err, !.logged = err])
  ELSE Unhandled(cs, ss, model,
                 [lst EXCEPT !.outcome = "unhandled", !.raised = err])

\* MainWidget.on_click, the whole handler.  i is what the handler meets: the
\* backend chosen, the text typed, the files on disk and how the backend
\* answers (b, fetchFail).
on_click(i) ==
  LET path == Resolve(i.dbType, i.connString)
      lst0 == [Last0 EXCEPT !.op = "on_click", !.path = path]
  IN IF FileBased(i.dbType, i.connString) /\ path \notin i.disk
     THEN Returns(conns, sessions, model,
                  [lst0 EXCEPT !.outcome = "nofile", !.title = "Message",
                               !.text = "There is no such database file."])
     ELSE
       LET c == clicks + 1
           cs0 == (c :> get_connector(i.dbType)) @@ conns
           e == execute(c, cs0, sessions, i.b)
           lst1 == [lst0 EXCEPT !.connector = c, !.calls = e.calls]
       IN IF e.raised # "none"
          THEN Except(e.raised, e.conns, e.sessions, lst1)
          ELSE
            LET d == get_data(c, e.conns, e.sessions, i.fetchFail)
                lst2 == [lst1 EXCEPT !.calls = e.calls \o <<"fetchmany">>]
                headers == get_headers(c, e.conns, d.sessions)
            IN IF d.raised # "none"
               THEN Except(d.raised, e.conns, d.sessions, lst2)
               ELSE IF headers = None
               THEN Returns(e.conns, d.sessions, model,
                      [lst2 EXCEPT !.outcome = "noresult", !.title = "Message",
                         !.text = "There is no result for your query."])
               ELSE Returns(e.conns, d.sessions,
                      ResultTableModel(Extend(<< >>, d.page), headers, c),
                      [lst2 EXCEPT !.outcome = "model"])

\* A few answers of a backend: a syntax error, no result set, a short result.
SomeBehaviours(driver) ==
  {b \in Behaviours(driver) :
     /\ b.connect = "ok" /\ b.commit = "ok"
     /\ b.execute \in {"ok", "sqlite3.OperationalError", "psycopg2.ProgrammingError"}
     /\ b.headers # None => (Len(b.headers) = 1 /\ b.total = ROWS_COUNT + 1)}

Input(t, str, disk, b, fetchFail) ==
  [dbType |-> t, connString |-> str, disk |-> disk, b |-> b,
   fetchFail |-> fetchFail]

MainString(t) == IF t = "sqlite3" THEN MEMORY ELSE Dsn

\* The inputs of on_click for backend t.  Every answer of the backend is tried
\* with one connection string, a failing first fetch with one result set, the
\* other strings with a few answers; a choice the handler does not read is not
\* varied.
InputsOf(t) ==
  LET d == DriverOf(t)
      rows == CHOOSE b \in SomeBehaviours(d) : b.execute = "ok" /\ b.headers # None
  IN {Input(t, MainString(t), {}, b, "ok") : b \in Behaviours(d)}
     \cup {Input(t, MainString(t), {}, rows, e) : e \in DriverErrors(d)}
     \cup UNION {{Input(t, str, IF FileBased(t, str) THEN Files ELSE {}, b, "ok") :
                    b \in SomeBehaviours(d)} :
                   str \in ConnStrings(t) \ {MainString(t)}}
     \cup {Input(t, str, {}, rows, "ok") :
             str \in {x \in ConnStrings(t) : FileBased(t, x)}}

ClickInputs == UNION {InputsOf(t) : t \in DbTypes}

\* --------------------------------------------------------------- actions
Installed == model # NoModel

\* More cycles than the longest result needs to be revealed in full.
MaxCycles == (MaxBatches + 1) * (FETCH_SIZE \div ROWS_COUNT) + MaxBatches + 3

Init ==
  /\ app = "running"
  /\ clicks = 0
  /\ conns = [c \in {} |-> Connector("")]
  /\ sessions = [s \in {} |-> NewSession]
  /\ model = NoModel
  /\ pc = "idle"
  /\ cycles = 0
  /\ last = Last0

\* The user presses Launch.
OnClick ==
  /\ app = "running" /\ pc = "idle" /\ clicks < MaxClicks
  /\ \E i \in ClickInputs :
       LET r == on_click(i)
       IN /\ app' = r.app
          /\ conns' = r.conns
          /\ sessions' = r.sessions
          /\ model' = r.model
          /\ last' = r.last
          /\ cycles' = IF r.last.outcome = "model" THEN 0 ELSE cycles
  /\ clicks' = clicks + 1
  /\ pc' = "idle"

\* A failure of a later fetch.  No except clause is around that call, so the
\* class raised makes no difference and one is tried.
FetchFailure(driver) ==
  IF driver = "sqlite3" THEN "sqlite3.OperationalError" ELSE "psycopg2.OperationalError"

\* The view asks whether there is more (the first half of a cycle).
CanFetchMore ==
  /\ app = "running" /\ pc = "idle" /\ Installed
  /\ \E fail \in {"ok", FetchFailure(conns[model.datasource].driver)} :
       LET r == canFetchMore(model, conns, sessions, fail)
           lst == [Last0 EXCEPT !.op = "canFetchMore", !.calls = r.calls,
                                !.connector = model.datasource,
                                !.returned = r.returned, !.raised = r.raised]
           u == Unhandled(conns, r.sessions, r.model, lst)
       IN /\ (fail # "ok") => (r.calls # << >>)
          /\ IF r.raised # "none"
             THEN /\ app' = u.app /\ conns' = u.conns /\ sessions' = u.sessions
                  /\ model' = u.model /\ last' = u.last
                  /\ pc' = "idle"
             ELSE /\ model' = r.model /\ sessions' = r.sessions /\ last' = lst
                  /\ pc' = IF r.returned THEN "grow" ELSE "idle"
                  /\ UNCHANGED <<app, conns>>
  /\ UNCHANGED <<clicks, cycles>>

\* canFetchMore returned true: the view calls fetchMore (the second half).
FetchMore ==
  /\ app = "running" /\ pc = "grow"
  /\ model' = fetchMore(model)
  /\ last' = [Last0 EXCEPT !.op = "fetchMore", !.connector = model.datasource]
  /\ pc' = "idle"
  /\ UNCHANGED <<app, clicks, conns, sessions, cycles>>

\* Indexes a caller may hand to data(): the last revealed row, the first row
\* past the revealed ones, the first row past the materialized ones, a column
\* past the last, and the invalid index.
Indexes(m) ==
  {[valid |-> TRUE, row |-> r, column |-> 0] :
      r \in {rowCount(m) - 1, rowCount(m), RowsLen(m.data)} \cap Nat}
  \cup {[valid |-> TRUE, row |-> 0, column |-> columnCount(m)],
        [valid |-> FALSE, row |-> 0, column |-> 0]}

\* The view reads a cell.
ReadCell ==
  /\ app = "running" /\ pc = "idle" /\ Installed
  /\ \E index \in Indexes(model), role \in {"DisplayRole", "EditRole"} :
       /\ role = "EditRole" =>
            index = [valid |-> TRUE, row |-> rowCount(model) - 1, column |-> 0]
       /\ last' = [Last0 EXCEPT !.op = "data", !.index = index, !.role = role,
                                !.connector = model.datasource,
                                !.result = data(model, index, role)]
  /\ UNCHANGED <<app, clicks, conns, sessions, model, pc, cycles>>

Next == OnClick \/ CanFetchMore \/ FetchMore \/ ReadCell

Spec == Init /\ [][Next]_vars

\* One cycle of the display layer, as one step: canFetchMore, then fetchMore
\* if it returned true.  cycles counts the cycles run on the model in place.
Cycle ==
  /\ app = "running" /\ pc = "idle" /\ Installed /\ cycles < MaxCycles
  /\ \E fail \in {"ok", FetchFailure(conns[model.datasource].driver)} :
       LET r == canFetchMore(model, conns, sessions, fail)
           lst == [Last0 EXCEPT !.op = "cycle", !.calls = r.calls,
                                !.connector = model.datasource,
                                !.returned = r.returned, !.raised = r.raised]
           u == Unhandled(conns, r.sessions, r.model, lst)
       IN /\ (fail # "ok") => (r.calls # << >>)
          /\ IF r.raised # "none"
             THEN /\ app' = u.app /\ conns' = u.conns /\ sessions' = u.sessions
                  /\ model' = u.model /\ last' = u.last
             ELSE /\ model' = IF r.returned THEN fetchMore(r.model) ELSE r.model
                  /\ sessions' = r.sessions /\ last' = lst
                  /\ UNCHANGED <<app, conns>>
  /\ cycles' = cycles + 1
  /\ UNCHANGED <<clicks, pc>>

\* One statement is launched; the display layer then runs its cycles.
FirstClick == clicks = 0 /\ OnClick

CycleNext == FirstClick \/ Cycle

\* The display layer keeps asking as long as it can.
CycleSpec == Init /\ [][CycleNext]_vars /\ WF_vars(Cycle)

\* ------------------------------------------- the Connector used directly
\* A caller other than on_click: it makes connectors, executes on them as
\* often as it likes, fetches, and runs the release (__del__) itself.
NewConnector ==
  /\ app = "running" /\ clicks < MaxClicks
  /\ \E t \in DbTypes : conns' = ((clicks + 1) :> get_connector(t)) @@ conns
  /\ clicks' = clicks + 1
  /\ last' = [Last0 EXCEPT !.op = "get_connector", !.connector = clicks + 1]
  /\ UNCHANGED <<app, sessions, model, pc, cycles>>

ApiBehaviours(driver) ==
  SomeBehaviours(driver)
    \cup {b \in Behaviours(driver) : b.connect = FetchFailure(driver)}

Execute ==
  \E c \in DOMAIN conns, t \in DbTypes :
    \E b \in ApiBehaviours(DriverOf(t)) :
      LET r == execute(c, conns, sessions, b)
      IN /\ conns[c].driver = DriverOf(t)
         /\ conns[c].opened < MaxExecutes
         /\ conns' = r.conns
         /\ sessions' = r.sessions
         /\ last' = [Last0 EXCEPT !.op = "execute", !.connector = c,
                                  !.calls = r.calls, !.raised = r.raised]
         /\ UNCHANGED <<app, clicks, model, pc, cycles>>

GetData ==
  \E c \in DOMAIN conns :
    LET r == get_data(c, conns, sessions, "ok")
    IN /\ sessions' = r.sessions
       /\ last' = [Last0 EXCEPT !.op = "get_data", !.connector = c,
                                !.calls = <<"fetchmany">>, !.raised = r.raised]
       /\ UNCHANGED <<app, clicks, conns, model, pc, cycles>>

Release ==
  \E c \in DOMAIN conns :
    /\ conns[c].connect # NoSession =>
         sessions[conns[c].connect].closeCalls < MaxReleases
    /\ sessions' = Connector_del(c, conns, sessions)
    /\ last' = [Last0 EXCEPT !.op = "__del__", !.connector = c,
                             !.closed = {conns[c].connect} \ {NoSession}]
    /\ UNCHANGED <<app, clicks, conns, model, pc, cycles>>

ApiNext == NewConnector \/ Execute \/ GetData \/ Release

ApiSpec == Init /\ [][ApiNext]_vars

\* ------------------------------------- the ResultTableModel used directly
\* A caller other than the view: it calls canFetchMore and fetchMore on the
\* model in any order, fetchMore also when canFetchMore has not returned True.
CallCanFetchMore ==
  /\ app = "running" /\ pc = "idle" /\ Installed
  /\ \E fail \in {"ok", FetchFailure(conns[model.datasource].driver)} :
       LET r == canFetchMore(model, conns, sessions, fail)
           lst == [Last0 EXCEPT !.op = "canFetchMore", !.calls = r.calls,
                                !.connector = model.datasource,
                                !.returned = r.returned, !.raised = r.raised]
           u == Unhandled(conns, r.sessions, r.model, lst)
       IN /\ (fail # "ok") => (r.calls # << >>)
          /\ IF r.raised # "none"
             THEN /\ app' = u.app /\ conns' = u.conns /\ sessions' = u.sessions
                  /\ model' = u.model /\ last' = u.last
             ELSE /\ model' = r.model /\ sessions' = r.sessions /\ last' = lst
                  /\ UNCHANGED <<app, conns>>
  /\ UNCHANGED <<clicks, pc, cycles>>

CallFetchMore ==
  /\ app = "running" /\ pc = "idle" /\ Installed
  /\ model' = fetchMore(model)
  /\ last' = [Last0 EXCEPT !.op = "fetchMore", !.connector = model.datasource]
  /\ UNCHANGED <<app, clicks, conns, sessions, pc, cycles>>

ModelNext == FirstClick \/ CallCanFetchMore \/ CallFetchMore

ModelSpec == Init /\ [][ModelNext]_vars

\* ---------------------------------------------------------------- claims
\* The session behind the model in the view, and the statement's row count.
Src == sessions[conns[model.datasource].cursor]
Total == Src.total
InitialRevealed == Min(Min(Total, FETCH_SIZE), ROWS_COUNT)

Exhausted ==
  /\ Installed
  /\ rowCount(model) = Total
  /\ RowsLen(model.data) = Total
  /\ Src.pos = Total

\* C1: after k cycles on a statement returning N rows (no backend call having
\* failed), rowCount() = min(N, initial_revealed + k * DISPLAY_BATCH).
C1_RowCountAfterCycles ==
  (Installed /\ app = "running") =>
    rowCount(model) = Min(Total, InitialRevealed + cycles * ROWS_COUNT)

\* C2: a canFetchMore call that fetched a page with rows in it returns true.
C2_FetchThenTrue ==
  [][(last'.op = "canFetchMore" /\ RowsLen(model'.data) > RowsLen(model.data))
       => last'.returned]_vars

\* C3: with the display layer cycling, a model in the view leads to Exhausted
\* (all N rows materialized and revealed, the cursor at its end) unless a
\* backend call fails, which ends the process.
C3_EventuallyExhausted ==
  (Installed /\ app = "running") ~> (Exhausted \/ app = "aborted")

\* C3's case: a result longer than one fetch batch, revealed to its last row.
C3_Witness == Exhausted /\ Total > FETCH_SIZE /\ cycles > 0

\* C4 as stated: the counter rowsLoaded <= len(data) <= N.
C4_RevealedWithinMaterialized ==
  Installed =>
    /\ model.rowsLoaded <= RowsLen(model.data)
    /\ RowsLen(model.data) <= Total

\* C4 as amended: rowCount() <= len(data) <= N, and a model just built has
\* rowsLoaded = ROWS_COUNT and rowCount() = min(len(initial page), ROWS_COUNT).
C4_RowCountWithinMaterialized ==
  Installed =>
    /\ rowCount(model) <= RowsLen(model.data)
    /\ RowsLen(model.data) <= Total
    /\ (last.op = "on_click" /\ last.outcome = "model") =>
         /\ model.rowsLoaded = ROWS_COUNT
         /\ rowCount(model) = Min(RowsLen(model.data), ROWS_COUNT)

\* C4's case: rows revealed by fetchMore and a second page fetched.
C4_Witness ==
  /\ Installed
  /\ rowCount(model) > ROWS_COUNT
  /\ RowsLen(model.data) > FETCH_SIZE

\* The rows 1..n in cursor order, nothing missing, repeated or out of place.
Contiguous(rows) ==
  \A j \in 1..Len(rows) :
    /\ rows[j].lo <= rows[j].hi
    /\ rows[j].lo = IF j = 1 THEN 1 ELSE rows[j - 1].hi + 1

\* C5: the materialized rows are exactly the rows the cursor has delivered, a
\* prefix of the result in cursor order, and the headers are the statement's.
C5_MaterializedIsPrefix ==
  Installed =>
    /\ Contiguous(model.data)
    /\ RowsLen(model.data) = Src.pos
    /\ model.headers = Src.headers

\* C5's case: a later fetch has appended a page.
C5_Witness == Installed /\ Len(model.data) >= 2 /\ last.op = "canFetchMore"

\* C6: a read of a cell at row >= rowCount() or column >= columnCount() fails
\* with an out-of-range condition.
C6_OutOfRangeFails ==
  (/\ last.op = "data" /\ last.index.valid /\ last.role = "DisplayRole"
   /\ \/ last.index.row >= rowCount(model)
      \/ last.index.column >= columnCount(model))
    => last.result.kind = "IndexError"

\* C7: however on_click ends, the only sessions left open are those of the
\* connector that the model in the view of the running program holds.
C7_ReleasedOnEveryExit ==
  \A s \in DOMAIN sessions :
    sessions[s].state = "open" =>
      /\ app = "running"
      /\ Installed
      /\ conns[model.datasource].connect = s

\* C8: every execute after the first reuses the open session: a connector
\* opens one session at most.
C8_OneSessionPerConnector == \A c \in DOMAIN conns : conns[c].opened <= 1

\* C9: running the release again never calls close() on a session that is
\* already released.
C9_ReleaseIdempotent ==
  \A s \in DOMAIN sessions : sessions[s].closeCalls <= 1

\* C10: an on_click in which execute or the first fetch raises leaves the
\* view's model as it was: none is built from that statement.
C10_FailedExecuteNoModel ==
  [][(last'.op = "on_click" /\ last'.raised # "none" /\ clicks' = clicks + 1)
       => model' = model]_vars

\* C10's case: a failed statement launched while a result is in the view.
C10_Witness ==
  /\ last.op = "on_click" /\ last.raised # "none"
  /\ Installed /\ model.datasource # last.connector

\* The step is on_click meeting input i.
OnClickWith(i) ==
  /\ clicks' = clicks + 1
  /\ last'.path = Resolve(i.dbType, i.connString)
  /\ last' = on_click(i).last

Calls(lst) == {lst.calls[j] : j \in 1..Len(lst.calls)}

\* Input i reaches the backend, and its statement runs and returns no result set.
NoResultSet(i) ==
  /\ ~(FileBased(i.dbType, i.connString) /\ Resolve(i.dbType, i.connString) \notin i.disk)
  /\ i.b.connect = "ok" /\ i.b.execute = "ok" /\ i.b.commit = "ok"
  /\ i.b.headers = None

\* The inputs whose statement runs and returns no result set.
NoResultSetInputs == {i \in ClickInputs : NoResultSet(i)}

\* C11: with either backend, a statement that runs and produces no result set
\* ends in the informational no-result message, not in an error, and the view's
\* model is left as it was.
C11_NoResultSetEveryBackend ==
  [][\A i \in NoResultSetInputs :
       OnClickWith(i) =>
          /\ last'.outcome = "noresult"
          /\ last'.title = "Message"
          /\ model' = model]_vars

\* The inputs whose statement fails or returns no result set.
NoHeadersInputs ==
  {i \in ClickInputs :
     ~(/\ i.b.connect = "ok" /\ i.b.execute = "ok" /\ i.b.commit = "ok"
       /\ i.b.headers # None)}

\* C12: on_click calls get_data only on a connector whose statement was
\* executed and has headers.
C12_FetchOnlyWithHeaders ==
  [][\A i \in NoHeadersInputs :
       OnClickWith(i) => "fetchmany" \notin Calls(last')]_vars

\* C13: every failure a backend call raises, in on_click or in a later fetch,
\* is shown to the user as an error and logged, and the program goes on.
C13_EveryFailureReported ==
  last.raised # "none" =>
    /\ app = "running"
    /\ last.outcome = "error"
    /\ last.title = "Error!"
    /\ last.logged = last.raised

\* Input i gets past the file check of on_click.
Reaches(i) ==
  ~(FileBased(i.dbType, i.connString) /\ Resolve(i.dbType, i.connString) \notin i.disk)

\* The inputs whose statement reaches the backend and fails in cursor.execute.
FailedStatementInputs ==
  {i \in ClickInputs : Reaches(i) /\ i.b.connect = "ok" /\ i.b.execute # "ok"}

\* C14: when cursor.execute raises, execute has called connect, cursor and
\* execute and has not called commit.
C14_NoCommitAfterFailedStatement ==
  [][\A i \in FailedStatementInputs :
       OnClickWith(i) =>
          /\ last'.calls = <<"connect", "cursor", "execute">>
          /\ last'.raised = i.b.execute]_vars

\* C14's case: a statement with a syntax error has been launched.
C14_Witness ==
  /\ last.op = "on_click"
  /\ last.raised \in {"sqlite3.OperationalError", "psycopg2.ProgrammingError"}
  /\ "execute" \in Calls(last) /\ "fetchmany" \notin Calls(last)

\* The inputs that name a database file of the file-based backend.
FileInputs ==
  {i \in ClickInputs : i.dbType = "sqlite3" /\ i.connString \notin {<< >>, MEMORY}}

\* The file such an input names: the text typed if it starts with "/", else
\* the text typed under the base directory.
FileNamed(i) ==
  IF i.connString[1] = "/" THEN i.connString
  ELSE BASE_DIR \o <<"/">> \o i.connString

\* C15: for the file-based backend and a locator other than ":memory:", the
\* locator is made absolute under the base directory, and if no such file
\* exists on_click shows its message and returns with no connector made, no
\* driver call and nothing else changed.
C15_MissingFileBeforeConnector ==
  [][\A i \in FileInputs :
       OnClickWith(i) =>
          /\ last'.path = FileNamed(i)
          /\ FileNamed(i) \notin i.disk =>
               /\ last'.outcome = "nofile"
               /\ last'.text = "There is no such database file."
               /\ last'.connector = 0 /\ last'.calls = << >>
               /\ conns' = conns /\ sessions' = sessions /\ model' = model]_vars

\* C15's case: a relative locator naming no file has been launched.
C15_Witness ==
  /\ last.op = "on_click" /\ last.outcome = "nofile"
  /\ ~StartsWithSlash(RelativeFile)
  /\ last.path = BASE_DIR \o <<"/">> \o RelativeFile

\* C16: once the model is Exhausted, canFetchMore does not return True, and
\* no call of canFetchMore or fetchMore, asked for or not, changes rowCount(),
\* the materialized rows or the headers: the model stays Exhausted.
C16_ExhaustedAbsorbing ==
  [][(Exhausted /\ last'.op \in {"canFetchMore", "fetchMore"}) =>
        /\ ~last'.returned
        /\ rowCount(model') = rowCount(model)
        /\ model'.data = model.data
        /\ model'.headers = model.headers
        /\ Exhausted']_vars

\* C16's case: a result the initial page held in full and revealed in full,
\* asked for more.
C16_Witness ==
  /\ Exhausted /\ Total > 0 /\ Total <= ROWS_COUNT
  /\ last.op = "canFetchMore" /\ last.calls = <<"fetchmany">>
  /\ last.raised = "none"

\* C20: no call of canFetchMore or fetchMore makes rowCount() smaller, fetchMore
\* called without canFetchMore having returned True included.
C20_RowCountNeverDecreases ==
  [][last'.op \in {"canFetchMore", "fetchMore"} =>
        rowCount(model') >= rowCount(model)]_vars

\* C20's case: fetchMore called on a model whose initial page was shorter than
\* ROWS_COUNT, which brought rowsLoaded down to len(data).
C20_Witness ==
  /\ Installed /\ last.op = "fetchMore"
  /\ RowsLen(model.data) < ROWS_COUNT /\ RowsLen(model.data) > 0
  /\ model.rowsLoaded = RowsLen(model.data)

\* C17: once a fetch has returned a page shorter than FETCH_SIZE and every row
\* is revealed, canFetchMore makes no backend call.
C17_NoFetchAfterExhaustion ==
  [][(Exhausted /\ Total % FETCH_SIZE # 0 /\ last'.op = "canFetchMore") =>
        last'.calls = << >>]_vars

\* C18: fetchMore called after canFetchMore returned True raises the revealed
\* count by min(ROWS_COUNT, len(data) - revealed), makes no backend call and
\* leaves the rows and the cursor as they were; canFetchMore and data() leave
\* rowCount() as it was.
C18_OnlyFetchMoreReveals ==
  [][/\ last'.op = "fetchMore" =>
          /\ rowCount(model') =
               rowCount(model) + Min(ROWS_COUNT, RowsLen(model.data) - rowCount(model))
          /\ model'.rowsLoaded =
               model.rowsLoaded + Min(ROWS_COUNT, RowsLen(model.data) - model.rowsLoaded)
          /\ rowCount(model') > rowCount(model)
          /\ last'.calls = << >>
          /\ model'.data = model.data /\ model'.headers = model.headers
          /\ sessions' = sessions /\ conns' = conns
     /\ last'.op \in {"canFetchMore", "data"} =>
          rowCount(model') = rowCount(model)]_vars

\* C18's case: rows of a later page revealed by fetchMore.
C18_Witness ==
  /\ last.op = "fetchMore" /\ Len(model.data) >= 2
  /\ rowCount(model) > FETCH_SIZE

\* C19: the materialized rows are never more than one fetch batch ahead of
\* the revealed ones.
C19_OneBatchAhead ==
  Installed => RowsLen(model.data) - rowCount(model) <= FETCH_SIZE

\* C19's case: a later page has been fetched and is not revealed yet.
C19_Witness ==
  /\ Installed /\ Len(model.data) >= 2
  /\ RowsLen(model.data) > rowCount(model)

====
